---- MODULE Spec2Model ----
(***************************************************************************)
(* A model of the w_result crate (src/lib.rs): the WResult<T, W, E> type,  *)
(* its collapse operations, the logging collapses and the FromIterator     *)
(* implementation.  A behaviour is one call: the caller picks a receiver   *)
(* and arguments, the operation runs (in one step when it is a plain       *)
(* match, step by step when it loops) and returns.                         *)
(***************************************************************************)
EXTENDS Integers, Sequences, FiniteSets

VARIABLES
    pc,        \* where the call is: "idle", "log", "collect", "collected", "done"
    opname,    \* the method called
    self,      \* its receiver
    arg,       \* its second argument (res, optb or op), if any
    ret,       \* the value it returned, NoRet until it returns
    opcalls,   \* the arguments the closure op was invoked with, in order
    pending,   \* what `for w in ws` has still to visit
    sink,      \* the records warn! handed to the log sink, in order
    input,     \* from_iter: the items of its argument
    iter,      \* Adapter::iter: the items not yet pulled
    warnings,  \* Adapter::warnings
    err,       \* Adapter::err
    built      \* the container FromIterator is building from the adapter

vars == <<pc, opname, self, arg, ret, opcalls, pending, sink,
          input, iter, warnings, err, built>>

(* ------------------------------ bounds -------------------------------- *)

MaxVal == 2
MaxMsg == 2
MaxWarn == 2
\* The size of from_iter's input: its elements plus the warnings they carry.
MaxInput == 4

(* ----------------------- payloads and constructors -------------------- *)

\* T: success payloads.
Vals == 1..MaxVal
\* W and E: warning and error payloads (the same type in the *_werr family).
Msgs == {100 + i : i \in 1..MaxMsg}

WOk(t, ws) == [tag |-> "WOk", t |-> t, ws |-> ws]
WErr(e) == [tag |-> "WErr", e |-> e]

Some(x) == [tag |-> "Some", v |-> x]
None == [tag |-> "None"]
Ok(t) == [tag |-> "Ok", v |-> t]
Err(e) == [tag |-> "Err", v |-> e]

NoRet == [tag |-> "NoRet"]
NoArg == [tag |-> "NoArg"]

SeqsUpTo(S, n) == UNION {[1..k -> S] : k \in 0..n}

WResults == {WOk(t, ws) : t \in Vals, ws \in SeqsUpTo(Msgs, MaxWarn)}
              \cup {WErr(e) : e \in Msgs}
\* Items an input iterator of from_iter can yield, by size: an element
\* counts one, each warning it carries one more.
ElemsOfSize(k) ==
    {WOk(t, ws) : t \in Vals, ws \in [1..(k - 1) -> Msgs]}
      \cup (IF k = 1 THEN {WErr(e) : e \in Msgs} ELSE {})
RECURSIVE InputsOfSize(_)
InputsOfSize(n) ==
    IF n = 0 THEN {<<>>}
    ELSE UNION {{<<e>> \o rest : e \in ElemsOfSize(k),
                                 rest \in InputsOfSize(n - k)} : k \in 1..n}
Inputs == UNION {InputsOfSize(n) : n \in 0..MaxInput}
\* Closures op: FnOnce(E) -> T.
OpFns == [Msgs -> Vals]

(* ------------------------------ Vec ----------------------------------- *)

\* Vec::truncate(n): keeps the first n elements.
truncate(ws, n) == IF Len(ws) <= n THEN ws ELSE SubSeq(ws, 1, n)
\* Vec::pop(): removes and returns the last element.
pop(ws) == IF ws = <<>> THEN None ELSE Some(ws[Len(ws)])
\* Vec::extend(other): appends other's elements in order.
extend(ws0, ws1) == ws0 \o ws1

(* ------------------------- variant queries ---------------------------- *)

is_ok(x) ==
    CASE x.tag = "WOk" -> TRUE
      [] x.tag = "WErr" -> FALSE

is_err(x) ==
    CASE x.tag = "WOk" -> TRUE
      [] x.tag = "WErr" -> FALSE

is_warn_or_err(x) ==
    CASE x.tag = "WOk" -> Len(x.ws) > 0
      [] x.tag = "WErr" -> TRUE

(* --------------------------- collapses -------------------------------- *)

ok_werr_doc(x) ==
    CASE x.tag = "WOk" -> Some(x.t)
      [] x.tag = "WErr" -> None

ok_werr(x) ==
    CASE x.tag = "WOk" -> IF Len(x.ws) = 0 THEN Some(x.t) ELSE None
      [] x.tag = "WErr" -> None

and_swapped(x, res) ==
    CASE x.tag = "WOk" ->
           (CASE res.tag = "WOk" -> WOk(res.t, extend(res.ws, x.ws))
              [] res.tag = "WErr" -> WErr(res.e))
      [] x.tag = "WErr" -> WErr(x.e)

and(x, res) ==
    CASE x.tag = "WOk" ->
           (CASE res.tag = "WOk" -> WOk(res.t, extend(x.ws, res.ws))
              [] res.tag = "WErr" -> WErr(res.e))
      [] x.tag = "WErr" -> WErr(x.e)

result_werr_res_last(x) ==
    CASE x.tag = "WOk" ->
           LET w == pop(x.ws)
           IN  IF w.tag = "Some" THEN Err(Ok(w.v)) ELSE Ok(x.t)
      [] x.tag = "WErr" -> Err(Err(x.e))

result_werr_res(x) ==
    CASE x.tag = "WOk" ->
           LET w == pop(truncate(x.ws, 1))
           IN  IF w.tag = "Some" THEN Err(Ok(w.v)) ELSE Ok(x.t)
      [] x.tag = "WErr" -> Err(Err(x.e))

unwrap_or_werr_doc(x, optb) ==
    CASE x.tag = "WOk" -> IF Len(x.ws) = 0 THEN x.t ELSE optb
      [] x.tag = "WErr" -> optb

unwrap_or_werr(x, optb) ==
    CASE x.tag = "WOk" -> IF Len(x.ws) = 0 THEN optb ELSE x.t
      [] x.tag = "WErr" -> optb

(* ------------------ warnings as errors (W = E) ------------------------ *)

err_werr(x) ==
    CASE x.tag = "WOk" -> pop(truncate(x.ws, 1))
      [] x.tag = "WErr" -> Some(x.e)

result_werr_last(x) ==
    CASE x.tag = "WOk" ->
           LET w == pop(x.ws)
           IN  IF w.tag = "Some" THEN Err(w.v) ELSE Ok(x.t)
      [] x.tag = "WErr" -> Err(x.e)

result_werr(x) ==
    CASE x.tag = "WOk" ->
           LET w == pop(truncate(x.ws, 1))
           IN  IF w.tag = "Some" THEN Err(w.v) ELSE Ok(x.t)
      [] x.tag = "WErr" -> Err(x.e)

\* The value returned and the arguments op was invoked with, in order.
unwrap_or_else_werr(x, op) ==
    CASE x.tag = "WOk" ->
           LET w == pop(truncate(x.ws, 1))
           IN  IF w.tag = "Some"
               THEN [v |-> op[w.v], calls |-> <<w.v>>]
               ELSE [v |-> x.t, calls |-> <<>>]
      [] x.tag = "WErr" -> [v |-> op[x.e], calls |-> <<x.e>>]

(* ------------------------ logging collapses --------------------------- *)

\* warn!("{}", w): one record handed to the log sink, at level Warn, whose
\* message is w rendered by its Display implementation.
warn(w) == [level |-> "Warn", args |-> <<"{}", w>>]

Reverse(s) == [i \in 1..Len(s) |-> s[Len(s) + 1 - i]]

log_warnings_reversed(ws) == [i \in 1..Len(ws) |-> warn(Reverse(ws)[i])]

\* for w in ws { warn!("{}", w); }: the sink writes of the loop, in order.
log_warnings(ws) == [i \in 1..Len(ws) |-> warn(ws[i])]

\* Each logging collapse: the sink writes it performs, then the value it
\* returns and the arguments its closure was invoked with.
ok_log(x) ==
    CASE x.tag = "WOk" ->
           [writes |-> log_warnings(x.ws), v |-> Some(x.t), calls |-> <<>>]
      [] x.tag = "WErr" -> [writes |-> <<>>, v |-> None, calls |-> <<>>]

result_log(x) ==
    CASE x.tag = "WOk" ->
           [writes |-> log_warnings(x.ws), v |-> Ok(x.t), calls |-> <<>>]
      [] x.tag = "WErr" -> [writes |-> <<>>, v |-> Err(x.e), calls |-> <<>>]

unwrap_log_or(x, optb) ==
    CASE x.tag = "WOk" ->
           [writes |-> log_warnings(x.ws), v |-> x.t, calls |-> <<>>]
      [] x.tag = "WErr" -> [writes |-> <<>>, v |-> optb, calls |-> <<>>]

unwrap_log_or_else(x, op) ==
    CASE x.tag = "WOk" ->
           [writes |-> log_warnings(x.ws), v |-> x.t, calls |-> <<>>]
      [] x.tag = "WErr" ->
           [writes |-> <<>>, v |-> op[x.e], calls |-> <<x.e>>]

LogOps == {"ok_log", "result_log", "unwrap_log_or", "unwrap_log_or_else"}

LogOp(name, x, a) ==
    CASE name = "ok_log" -> ok_log(x)
      [] name = "result_log" -> result_log(x)
      [] name = "unwrap_log_or" -> unwrap_log_or(x, a)
      [] name = "unwrap_log_or_else" -> unwrap_log_or_else(x, a)

(* --------------------------- FromIterator ----------------------------- *)

\* Iterator::next of the input iterator: the item pulled and what is left.
IterNext(it) ==
    IF it = <<>> THEN [item |-> None, iter |-> it]
    ELSE [item |-> Some(Head(it)), iter |-> Tail(it)]

AdapterNext_prepend(ad) ==
    LET n == IterNext(ad.iter)
    IN  CASE n.item.tag = "Some" /\ n.item.v.tag = "WOk" ->
               [iter |-> n.iter, warnings |-> extend(n.item.v.ws, ad.warnings),
                err |-> ad.err, item |-> Some(n.item.v.t)]
          [] n.item.tag = "Some" /\ n.item.v.tag = "WErr" ->
               [iter |-> n.iter, warnings |-> ad.warnings,
                err |-> Some(n.item.v.e), item |-> None]
          [] n.item.tag = "None" ->
               [iter |-> n.iter, warnings |-> ad.warnings,
                err |-> ad.err, item |-> None]

RECURSIVE AdapterNext_skip(_)
AdapterNext_skip(ad) ==
    LET n == IterNext(ad.iter)
    IN  CASE n.item.tag = "Some" /\ n.item.v.tag = "WOk" ->
               [iter |-> n.iter, warnings |-> extend(ad.warnings, n.item.v.ws),
                err |-> ad.err, item |-> Some(n.item.v.t)]
          [] n.item.tag = "Some" /\ n.item.v.tag = "WErr" ->
               AdapterNext_skip([iter |-> n.iter, warnings |-> ad.warnings,
                                 err |-> Some(n.item.v.e)])
          [] n.item.tag = "None" ->
               [iter |-> n.iter, warnings |-> ad.warnings,
                err |-> ad.err, item |-> None]

\* Adapter::next: the adapter's fields afterwards and the item it yields.
AdapterNext(ad) ==
    LET n == IterNext(ad.iter)
    IN  CASE n.item.tag = "Some" /\ n.item.v.tag = "WOk" ->
               [iter |-> n.iter, warnings |-> extend(ad.warnings, n.item.v.ws),
                err |-> ad.err, item |-> Some(n.item.v.t)]
          [] n.item.tag = "Some" /\ n.item.v.tag = "WErr" ->
               [iter |-> n.iter, warnings |-> ad.warnings,
                err |-> Some(n.item.v.e), item |-> None]
          [] n.item.tag = "None" ->
               [iter |-> n.iter, warnings |-> ad.warnings,
                err |-> ad.err, item |-> None]

\* The final match of from_iter on adapter.err.
FromIterResult(e, t, ws) ==
    CASE e.tag = "Some" -> WErr(e.v)
      [] e.tag = "None" -> WOk(t, ws)

(* ------------------------------ state --------------------------------- *)

Init ==
    /\ pc = "idle"
    /\ opname = "none"
    /\ self = NoArg
    /\ arg = NoArg
    /\ ret = NoRet
    /\ opcalls = <<>>
    /\ pending = <<>>
    /\ sink = <<>>
    /\ input = <<>>
    /\ iter = <<>>
    /\ warnings = <<>>
    /\ err = None
    /\ built = <<>>

\* A call that is one match expression: it returns r in a single step.
Returns(name, x, a, r, calls) ==
    /\ pc' = "done"
    /\ opname' = name
    /\ self' = x
    /\ arg' = a
    /\ ret' = r
    /\ opcalls' = calls
    /\ UNCHANGED <<pending, sink, input, iter, warnings, err, built>>

CallIsOk ==
    /\ pc = "idle"
    /\ \E x \in WResults : Returns("is_ok", x, NoArg, is_ok(x), <<>>)

CallIsErr ==
    /\ pc = "idle"
    /\ \E x \in WResults : Returns("is_err", x, NoArg, is_err(x), <<>>)

CallIsWarnOrErr ==
    /\ pc = "idle"
    /\ \E x \in WResults :
           Returns("is_warn_or_err", x, NoArg, is_warn_or_err(x), <<>>)

CallOkWerr ==
    /\ pc = "idle"
    /\ \E x \in WResults : Returns("ok_werr", x, NoArg, ok_werr(x), <<>>)

CallAnd ==
    /\ pc = "idle"
    /\ \E x \in WResults, res \in WResults :
           Returns("and", x, res, and(x, res), <<>>)

CallResultWerrRes ==
    /\ pc = "idle"
    /\ \E x \in WResults :
           Returns("result_werr_res", x, NoArg, result_werr_res(x), <<>>)

CallUnwrapOrWerr ==
    /\ pc = "idle"
    /\ \E x \in WResults, optb \in Vals :
           Returns("unwrap_or_werr", x, optb, unwrap_or_werr(x, optb), <<>>)

CallErrWerr ==
    /\ pc = "idle"
    /\ \E x \in WResults : Returns("err_werr", x, NoArg, err_werr(x), <<>>)

CallResultWerr ==
    /\ pc = "idle"
    /\ \E x \in WResults :
           Returns("result_werr", x, NoArg, result_werr(x), <<>>)

CallUnwrapOrElseWerr ==
    /\ pc = "idle"
    /\ \E x \in WResults, op \in OpFns :
           LET r == unwrap_or_else_werr(x, op)
           IN  Returns("unwrap_or_else_werr", x, op, r.v, r.calls)

\* A logging collapse is entered: its loop's writes are still to be made.
CallLog ==
    /\ pc = "idle"
    /\ \E name \in LogOps, x \in WResults :
      \E a \in (CASE name = "unwrap_log_or" -> Vals
                  [] name = "unwrap_log_or_else" -> OpFns
                  [] OTHER -> {NoArg}) :
        /\ pc' = "log"
        /\ opname' = name
        /\ self' = x
        /\ arg' = a
        /\ pending' = LogOp(name, x, a).writes
        /\ UNCHANGED <<ret, opcalls, sink, input, iter, warnings, err, built>>

\* One iteration of the loop: warn! hands one record to the sink.
Warn ==
    /\ pc = "log"
    /\ pending # <<>>
    /\ sink' = Append(sink, Head(pending))
    /\ pending' = Tail(pending)
    /\ UNCHANGED <<pc, opname, self, arg, ret, opcalls,
                   input, iter, warnings, err, built>>

\* The loop is over (or the arm has none): the collapse returns.
LogReturn ==
    /\ pc = "log"
    /\ pending = <<>>
    /\ pc' = "done"
    /\ ret' = LogOp(opname, self, arg).v
    /\ opcalls' = LogOp(opname, self, arg).calls
    /\ UNCHANGED <<opname, self, arg, pending, sink,
                   input, iter, warnings, err, built>>

\* from_iter is entered: the adapter wraps the input iterator.
CallFromIter ==
    /\ pc = "idle"
    /\ \E in \in Inputs :
        /\ pc' = "collect"
        /\ opname' = "from_iter"
        /\ input' = in
        /\ iter' = in
        /\ warnings' = <<>>
        /\ err' = None
        /\ built' = <<>>
        /\ UNCHANGED <<self, arg, ret, opcalls, pending, sink>>

\* The container's FromIterator pulls one item from the adapter: it pushes
\* the item, or stops at the first None.
Collect ==
    /\ pc = "collect"
    /\ LET a == AdapterNext([iter |-> iter, warnings |-> warnings, err |-> err])
       IN  /\ iter' = a.iter
           /\ warnings' = a.warnings
           /\ err' = a.err
           /\ IF a.item.tag = "Some"
              THEN /\ built' = Append(built, a.item.v)
                   /\ pc' = "collect"
              ELSE /\ built' = built
                   /\ pc' = "collected"
    /\ UNCHANGED <<opname, self, arg, ret, opcalls, pending, sink, input>>

FromIterReturn ==
    /\ pc = "collected"
    /\ pc' = "done"
    /\ ret' = FromIterResult(err, built, warnings)
    /\ UNCHANGED <<opname, self, arg, opcalls, pending, sink,
                   input, iter, warnings, err, built>>

Next ==
    \/ CallIsOk
    \/ CallIsErr
    \/ CallIsWarnOrErr
    \/ CallOkWerr
    \/ CallAnd
    \/ CallResultWerrRes
    \/ CallUnwrapOrWerr
    \/ CallErrWerr
    \/ CallResultWerr
    \/ CallUnwrapOrElseWerr
    \/ CallLog
    \/ Warn
    \/ LogReturn
    \/ CallFromIter
    \/ Collect
    \/ FromIterReturn

Spec == Init /\ [][Next]_vars

(* ------------------------------ claims -------------------------------- *)

Returned(name) == pc = "done" /\ opname = name

\* C1: is_err returns true exactly for WErr (true for every WErr(e), false
\* for every WOk(t, ws)), so is_ok and is_err never agree on a value.
C1_IsErrIffWErr ==
    Returned("is_err") =>
        /\ ret = (self.tag = "WErr")
        /\ is_ok(self) # is_err(self)

\* The index of the first WErr of an input, 0 when it has none.
FirstErr(in) ==
    IF \E i \in 1..Len(in) : in[i].tag = "WErr"
    THEN CHOOSE i \in 1..Len(in) :
           /\ in[i].tag = "WErr"
           /\ \A j \in 1..(i - 1) : in[j].tag = "WOk"
    ELSE 0

Pulled == Len(input) - Len(iter)

\* C2: from_iter over an input holding a WErr returns WErr(e) for the first
\* WErr in input order, whatever warnings came before it, and pulls the
\* input up to and including that element and never further.
C2_FirstErrWins ==
    (opname = "from_iter" /\ FirstErr(input) > 0) =>
        /\ Pulled <= FirstErr(input)
        /\ iter = SubSeq(input, Pulled + 1, Len(input))
        /\ pc \in {"collected", "done"} => Pulled = FirstErr(input)
        /\ pc = "done" => ret = WErr(input[FirstErr(input)].e)

C2_Witness ==
    /\ Returned("from_iter")
    /\ FirstErr(input) = 2
    /\ input[1].ws # <<>>
    /\ Len(input) = 3
    /\ iter = <<input[3]>>

RECURSIVE ValuesOf(_)
ValuesOf(in) ==
    IF in = <<>> THEN <<>> ELSE <<Head(in).t>> \o ValuesOf(Tail(in))

RECURSIVE WarningsOf(_)
WarningsOf(in) ==
    IF in = <<>> THEN <<>> ELSE Head(in).ws \o WarningsOf(Tail(in))

\* C3: from_iter over an input of WOk elements only (the empty input too)
\* returns WOk(c, ws): c the elements' values in input order, ws the
\* concatenation of their warning lists in input order.
C3_AllOkCollects ==
    (Returned("from_iter") /\ FirstErr(input) = 0) =>
        /\ ret = WOk(ValuesOf(input), WarningsOf(input))
        /\ iter = <<>>

C3_Witness ==
    /\ Returned("from_iter")
    /\ FirstErr(input) = 0
    /\ Len(input) = 2
    /\ input[1].t # input[2].t
    /\ input[1].ws # <<>>
    /\ input[2].ws # <<>>
    /\ input[1].ws # input[2].ws

\* C4: and(self, res) is WOk(t1, ws0 ++ ws1) for WOk(_, ws0) and
\* WOk(t1, ws1), WErr(e1) for WOk(_, ws0) and WErr(e1), and WErr(e0) for
\* self = WErr(e0) whatever res is.
C4_And ==
    Returned("and") =>
        /\ (self.tag = "WOk" /\ arg.tag = "WOk") =>
               /\ ret.tag = "WOk"
               /\ ret.t = arg.t
               /\ Len(ret.ws) = Len(self.ws) + Len(arg.ws)
               /\ \A i \in 1..Len(self.ws) : ret.ws[i] = self.ws[i]
               /\ \A i \in 1..Len(arg.ws) :
                      ret.ws[Len(self.ws) + i] = arg.ws[i]
        /\ (self.tag = "WOk" /\ arg.tag = "WErr") => ret = WErr(arg.e)
        /\ self.tag = "WErr" => ret = WErr(self.e)

C4_Witness ==
    /\ Returned("and")
    /\ self.tag = "WOk"
    /\ arg.tag = "WOk"
    /\ self.t # arg.t
    /\ Len(self.ws) = 1
    /\ Len(arg.ws) = 1
    /\ self.ws # arg.ws

\* C5: result_werr is Ok(t) for WOk(t, []), Err(w1) for WOk(t, [w1, ...])
\* (the first warning, never a later one) and Err(e) for WErr(e).
C5_ResultWerr ==
    Returned("result_werr") =>
        /\ (self.tag = "WOk" /\ self.ws = <<>>) => ret = Ok(self.t)
        /\ (self.tag = "WOk" /\ self.ws # <<>>) => ret = Err(self.ws[1])
        /\ self.tag = "WErr" => ret = Err(self.e)

C5_Witness ==
    /\ Returned("result_werr")
    /\ self.tag = "WOk"
    /\ Len(self.ws) >= 2
    /\ self.ws[1] # self.ws[Len(self.ws)]

C7_UnwrapOrWerrDoc ==
    Returned("unwrap_or_werr") =>
        /\ (self.tag = "WOk" /\ self.ws = <<>>) => ret = self.t
        /\ (self.tag = "WOk" /\ self.ws # <<>>) => ret = arg
        /\ self.tag = "WErr" => ret = arg

IsPrefix(s, t) == Len(s) <= Len(t) /\ \A i \in 1..Len(s) : s[i] = t[i]

\* What the sink holds after the warnings ws were each logged, in order.
Logged(ws) == [i \in 1..Len(ws) |-> warn(ws[i])]

\* C8: a logging collapse of WOk(t, [w1..wn]) writes w1..wn to the sink, one
\* write each and in that order, all before it returns Some(t)/Ok(t)/t; of
\* WErr(e) it writes nothing and returns None/Err(e)/optb/op(e).
C8_LogBeforeReturn ==
    opname \in LogOps =>
        /\ self.tag = "WOk" =>
               /\ IsPrefix(sink, Logged(self.ws))
               /\ pc = "log" => ret = NoRet
               /\ pc = "done" =>
                      /\ sink = Logged(self.ws)
                      /\ opcalls = <<>>
                      /\ opname = "ok_log" => ret = Some(self.t)
                      /\ opname = "result_log" => ret = Ok(self.t)
                      /\ opname = "unwrap_log_or" => ret = self.t
                      /\ opname = "unwrap_log_or_else" => ret = self.t
        /\ self.tag = "WErr" =>
               /\ sink = <<>>
               /\ pc = "done" =>
                      /\ opname = "ok_log" => ret = None
                      /\ opname = "result_log" => ret = Err(self.e)
                      /\ opname = "unwrap_log_or" => ret = arg
                      /\ opname = "unwrap_log_or_else" =>
                             ret = arg[self.e] /\ opcalls = <<self.e>>

C8_Witness ==
    /\ pc = "done"
    /\ opname = "unwrap_log_or"
    /\ self.tag = "WOk"
    /\ Len(self.ws) = 2
    /\ self.ws[1] # self.ws[2]
    /\ Len(sink) = 2
    /\ self.t # arg

\* C9: result_werr_res is Ok(t) for WOk(t, []), Err(Ok(w1)) for
\* WOk(t, [w1, ...]) (the first warning) and Err(Err(e)) for WErr(e).
C9_ResultWerrRes ==
    Returned("result_werr_res") =>
        /\ (self.tag = "WOk" /\ self.ws = <<>>) => ret = Ok(self.t)
        /\ (self.tag = "WOk" /\ self.ws # <<>>) => ret = Err(Ok(self.ws[1]))
        /\ self.tag = "WErr" => ret = Err(Err(self.e))

C9_Witness ==
    /\ Returned("result_werr_res")
    /\ self.tag = "WOk"
    /\ Len(self.ws) >= 2
    /\ self.ws[1] # self.ws[Len(self.ws)]

WerrOps == {"is_warn_or_err", "ok_werr", "err_werr", "result_werr",
            "unwrap_or_else_werr"}

\* The error of x, or its first warning: what the *_werr family reports.
Culprit(x) == IF x.tag = "WErr" THEN x.e ELSE x.ws[1]

\* C10: on every value x the warnings-as-errors operations agree:
\* is_warn_or_err(x) is false exactly when ok_werr(x) = Some(t), when
\* result_werr(x) = Ok(t), when err_werr(x) = None and when
\* unwrap_or_else_werr(x, op) returns t without invoking op; and when it is
\* true, err_werr(x) = Some(v), result_werr(x) = Err(v) and
\* unwrap_or_else_werr(x, op) = op(v) for one and the same v.
C10_WerrFamilyAgrees ==
    (pc = "done" /\ opname \in WerrOps) =>
        LET x == self
            clean == ~is_warn_or_err(x)
        IN  /\ clean <=> (x.tag = "WOk" /\ ok_werr(x) = Some(x.t))
            /\ clean <=> (x.tag = "WOk" /\ result_werr(x) = Ok(x.t))
            /\ clean <=> (err_werr(x) = None)
            /\ \A op \in OpFns :
                   clean <=> /\ x.tag = "WOk"
                             /\ unwrap_or_else_werr(x, op).v = x.t
                             /\ unwrap_or_else_werr(x, op).calls = <<>>
            /\ ~clean =>
                   /\ ok_werr(x) = None
                   /\ err_werr(x) = Some(Culprit(x))
                   /\ result_werr(x) = Err(Culprit(x))
                   /\ \A op \in OpFns :
                          /\ unwrap_or_else_werr(x, op).v = op[Culprit(x)]
                          /\ unwrap_or_else_werr(x, op).calls = <<Culprit(x)>>
            /\ opname = "is_warn_or_err" => ret = is_warn_or_err(x)
            /\ opname = "ok_werr" => ret = ok_werr(x)
            /\ opname = "err_werr" => ret = err_werr(x)
            /\ opname = "result_werr" => ret = result_werr(x)
            /\ opname = "unwrap_or_else_werr" =>
                   /\ ret = unwrap_or_else_werr(x, arg).v
                   /\ opcalls = unwrap_or_else_werr(x, arg).calls

C10_Witness ==
    /\ Returned("unwrap_or_else_werr")
    /\ self.tag = "WOk"
    /\ Len(self.ws) >= 2
    /\ self.ws[1] # self.ws[Len(self.ws)]
    /\ arg[self.ws[1]] # self.t
    /\ arg[self.ws[1]] # arg[self.ws[Len(self.ws)]]

====
